---- MODULE Spec2Model ----
(***************************************************************************)
(* Orchestration engine of the finance chatbot:                            *)
(*   finance_agent/agent.py  topo_sort_subquestions, resolve_placeholders, *)
(*                           FinancialAgent.answer and its helpers         *)
(*   main.py                 chat, event_generator (chat_stream), history  *)
(*                                                                         *)
(* Texts are sequences of pieces: a word (a maximal run of characters that *)
(* holds no whitespace and no colon), a space, a colon, or a placeholder   *)
(* token {{KEY}}.  Optional values (Python's None) are sequences of length *)
(* at most one: <<>> is None, <<v>> is the value v.                        *)
(***************************************************************************)
EXTENDS Integers, Sequences, FiniteSets, TLC

\* ---------------------------------------------------------------- bounds
\* nodes of a list handed to the scheduler on its own (SpecTopo)
MaxNodes == 3
\* nodes of a decomposition inside a full run (Spec)
RunNodes == 2
\* requests served in one behaviour of Spec
MaxRuns == 1
\* requests served in one behaviour of SpecHistory, beyond the capacity
ExtraRuns == 2
\* pieces of a text handed to a function called on its own
MaxPieces == 2
\* hits of the similarity search
MaxHits == 2
\* raw arguments of a tool call
MaxArgs == 2
\* ChatHistory(max_messages, max_tokens_estimate): the limits of a history
max_messages == 2
max_tokens_estimate == 2
\* add_message calls in one behaviour of SpecChat
MaxAdds == 4

\* ------------------------------------------------------- program constants
\* agent.py:599-600  the conversation history keeps the last 10 exchanges
HistoryCap == 10

\* ---------------------------------------------------------------- pieces
W(s) == [k |-> "w", c |-> s, sid |-> 0]
SP == [k |-> "sp", c |-> " ", sid |-> 0]
COLON == [k |-> "colon", c |-> ":", sid |-> 0]
\* the token {{<field>_FROM_Q<n>}}
PH(f, n) == [k |-> "ph", c |-> f, sid |-> n]
\* a token {{KEY}} whose key does not end in _FROM_Q<n>
PHX(key) == [k |-> "phx", c |-> key, sid |-> 0]
\* the quoted key '<field>_FROM_Q<n>' inside the repr of a list: one word
KEYW(f, n) == [k |-> "key", c |-> f, sid |-> n]

IsToken(p) == p.k \in {"ph", "phx"}
IsSpace(p) == p.k = "sp"
IsColon(p) == p.k = "colon"

None == <<>>
Some(v) == <<v>>
IsNone(o) == o = <<>>

RECURSIVE Flatten(_)
Flatten(ss) == IF ss = <<>> THEN <<>> ELSE Head(ss) \o Flatten(Tail(ss))

Range(s) == {s[i] : i \in 1..Len(s)}

\* ------------------------------------------------------------ scheduler
Node(id, q, deps) == [id |-> id, question |-> q, depends_on |-> deps]

IdSet(subs) == {subs[i].id : i \in 1..Len(subs)}

\* id_map = {sq["id"]: sq for sq in subquestions}: the last node of an id wins
IdMap(subs, nid) ==
    LET last == CHOOSE i \in 1..Len(subs) :
                    /\ subs[i].id = nid
                    /\ \A j \in 1..Len(subs) : subs[j].id = nid => j <= i
    IN subs[last]

\* the keys of indeg in insertion order: each id at its first occurrence
KeyOrder(subs) ==
    LET first(i) == \A j \in 1..(i - 1) : subs[j].id # subs[i].id
        F[i \in 0..Len(subs)] ==
            IF i = 0 THEN <<>>
            ELSE IF first(i) THEN Append(F[i - 1], subs[i].id) ELSE F[i - 1]
    IN F[Len(subs)]

\* the (dep, id) pairs in the order the two nested loops visit them
EdgesOf(subs) ==
    Flatten([i \in 1..Len(subs) |->
                [k \in 1..Len(subs[i].depends_on) |->
                    [dep |-> subs[i].depends_on[k], id |-> subs[i].id]]])

InvalidDep(subs) == \E e \in Range(EdgesOf(subs)) : e.dep \notin IdSet(subs)

\* g[d]: the ids appended for dependency d, in append order
Adj(subs, d) ==
    LET es == SelectSeq(EdgesOf(subs), LAMBDA e : e.dep = d)
    IN [i \in 1..Len(es) |-> es[i].id]

Indeg(subs) ==
    [n \in IdSet(subs) |->
        Len(SelectSeq(EdgesOf(subs), LAMBDA e : e.id = n))]

\* the relaxation loop with a stack in place of the queue
RECURSIVE RelaxLifo(_, _, _)
RelaxLifo(nbrs, indeg, q) ==
    IF nbrs = <<>> THEN [indeg |-> indeg, q |-> q]
    ELSE LET n == Head(nbrs)
             d == indeg[n] - 1
         IN RelaxLifo(Tail(nbrs), [indeg EXCEPT ![n] = d],
                      IF d = 0 THEN <<n>> \o q ELSE q)

\* for nei in g[nid]: indeg[nei] -= 1; if indeg[nei] == 0: q.append(nei)
RECURSIVE Relax(_, _, _)
Relax(nbrs, indeg, q) ==
    IF nbrs = <<>> THEN [indeg |-> indeg, q |-> q]
    ELSE LET n == Head(nbrs)
             d == indeg[n] - 1
         IN Relax(Tail(nbrs), [indeg EXCEPT ![n] = d],
                  IF d = 0 THEN Append(q, n) ELSE q)

\* while q: nid = q.popleft(); result.append(id_map[nid]); ...
RECURSIVE Kahn(_, _, _, _)
Kahn(subs, indeg, q, result) ==
    IF q = <<>> THEN result
    ELSE LET nid == Head(q)
             r == Relax(Adj(subs, nid), indeg, Tail(q))
         IN Kahn(subs, r.indeg, r.q, Append(result, IdMap(subs, nid)))

\* the queue seeded with every node, whatever its indegree
SeedAll(subs) == KeyOrder(subs)

SeedZero(subs) ==
    SelectSeq(KeyOrder(subs), LAMBDA n : Indeg(subs)[n] = 0)

\* the sort without its cycle check: what Kahn's loop reached is returned
TopoUnchecked(subs) ==
    IF InvalidDep(subs) THEN [err |-> "invalid", result |-> <<>>]
    ELSE [err |-> "",
          result |-> Kahn(subs, Indeg(subs), SeedZero(subs), <<>>)]

\* err: "" (returned), "invalid" or "cycle" (ValueError raised)
topo_sort_subquestions(subs) ==
    IF InvalidDep(subs) THEN [err |-> "invalid", result |-> <<>>]
    ELSE LET r == Kahn(subs, Indeg(subs), SeedZero(subs), <<>>)
         IN IF Len(r) # Len(subs) THEN [err |-> "cycle", result |-> <<>>]
            ELSE [err |-> "", result |-> r]

\* ------------------------------------------------------------- texts
\* str.strip(): leading and trailing whitespace removed
RECURSIVE LStrip(_)
LStrip(t) == IF t # <<>> /\ IsSpace(Head(t)) THEN LStrip(Tail(t)) ELSE t

\* the length of t without its trailing whitespace, t[(i+1)..] being blank
RECURSIVE RStripLen(_, _)
RStripLen(t, i) ==
    IF i = 0 \/ ~IsSpace(t[i]) THEN i ELSE RStripLen(t, i - 1)

RStrip(t) == SubSeq(t, 1, RStripLen(t, Len(t)))

Strip(t) == RStrip(LStrip(t))

HasColon(t) == \E i \in 1..Len(t) : IsColon(t[i])

\* the place of the last colon at or before i, 0 when there is none
RECURSIVE LastColon(_, _)
LastColon(t, i) ==
    IF i = 0 \/ IsColon(t[i]) THEN i ELSE LastColon(t, i - 1)

\* txt.split(":")[-1]: what follows the last colon
AfterLastColon(t) == SubSeq(t, LastColon(t, Len(t)) + 1, Len(t))

\* s.split(): the whitespace-delimited tokens; NoTokens(s) is s.split() == []
NoTokens(t) == LStrip(t) = <<>>

\* the pieces of s before its first whitespace
RECURSIVE UpToSpace(_)
UpToSpace(s) ==
    IF s = <<>> \/ IsSpace(Head(s)) THEN <<>>
    ELSE <<Head(s)>> \o UpToSpace(Tail(s))

\* s.split()[0] for a text with a token
FirstToken(t) == UpToSpace(LStrip(t))

\* str.lower() on the field names of the model (regex [A-Z0-9_]+)
Lower(s) ==
    CASE s = "TICKER" -> "ticker"
      [] s = "PRICE" -> "price"
      [] s = "Ticker" -> "ticker"
      [] s = "Ticker_Symbol" -> "ticker_symbol"
      [] OTHER -> s

\* ------------------------------------------------------ answer records
\* a dict is the sequence of its (key, val) items in insertion order
Item(key, val) == [key |-> key, val |-> val]

HasKey(d, key) == \E i \in 1..Len(d) : d[i].key = key

\* d.get(key): None when the key is absent
DictGet(d, key) ==
    IF HasKey(d, key)
    THEN Some(d[CHOOSE i \in 1..Len(d) : d[i].key = key].val)
    ELSE None

\* Python truth of an optional text: None and "" are false
Truthy(o) == o # None /\ o[1] # <<>>

\* a or b
Or(a, b) == IF Truthy(a) THEN a ELSE b

Rec(id, answer, used, ed) ==
    [id |-> id, answer |-> answer, used_tools |-> used, extracted_data |-> ed]

\* answered_by_id.get(sid) on the records in insertion order
HasAnswer(answered, sid) == \E i \in 1..Len(answered) : answered[i].id = sid

AnswerOf(answered, sid) ==
    answered[CHOOSE i \in 1..Len(answered) : answered[i].id = sid]

\* the record put in front of the others
PutAnswerFront(answered, rec) == <<rec>> \o answered

\* answered_by_id[sq_id] = ans_obj: a new key goes last, an old key keeps
\* its place
PutAnswer(answered, rec) ==
    IF HasAnswer(answered, rec.id)
    THEN [i \in 1..Len(answered) |->
            IF answered[i].id = rec.id THEN rec ELSE answered[i]]
    ELSE Append(answered, rec)

\* ------------------------------------------------- resolve_placeholders
KeyOf(p) == [k |-> "key", c |-> p.c, sid |-> p.sid]

\* agent.py:77-84  the value taken from the answer text; exc is the
\* IndexError of parts[-1].strip().split()[0] on an empty list
TextValue(a) ==
    LET txt == Strip(a)
    IN IF HasColon(txt)
       THEN IF NoTokens(Strip(AfterLastColon(txt)))
            THEN [exc |-> TRUE, value |-> None]
            ELSE [exc |-> FALSE,
                  value |-> Some(FirstToken(Strip(AfterLastColon(txt))))]
       ELSE IF NoTokens(txt) THEN [exc |-> FALSE, value |-> None]
            ELSE [exc |-> FALSE, value |-> Some(FirstToken(txt))]

DataValueExact(ed, field) == DictGet(ed, field)

\* agent.py:68-71  value = ed.get(field_name.lower()) or ed.get(field_name)
DataValue(ed, field) == Or(DictGet(ed, Lower(field)), DictGet(ed, field))

\* repl(match) for one token: the text put in its place, the key appended
\* to missing (if any), and whether the call raised
Repl(p, answered) ==
    LET keep == [out |-> <<p>>, missing |-> <<KeyOf(p)>>, exc |-> FALSE,
                 from |-> <<>>]
    IN IF p.k = "phx" THEN keep
       ELSE IF ~HasAnswer(answered, p.sid) THEN keep
       ELSE LET ans == AnswerOf(answered, p.sid)
                v1 == DataValue(ans.extracted_data, p.c)
                tv == IF v1 = None /\ ans.answer # None
                      THEN TextValue(ans.answer[1])
                      ELSE [exc |-> FALSE, value |-> v1]
            IN IF tv.exc
               THEN [out |-> <<>>, missing |-> <<>>, exc |-> TRUE,
                     from |-> <<>>]
               ELSE IF tv.value = None THEN keep
               ELSE [out |-> tv.value[1], missing |-> <<>>, exc |-> FALSE,
                     from |-> <<p.sid>>]

\* what PLACEHOLDER_PATTERN.sub does with the piece p: a token goes through
\* repl, any other piece stays
Piece(p, answered) ==
    IF IsToken(p) THEN Repl(p, answered)
    ELSE [out |-> <<p>>, missing |-> <<>>, exc |-> FALSE, from |-> <<>>]

\* PLACEHOLDER_PATTERN.sub(repl, question_text): the tokens left to right;
\* exc when a call of repl raised (no text is returned then).  from lists
\* the ids of the records a value was taken from.
resolve_placeholders(text, answered) ==
    LET n == Len(text)
    IN IF \E i \in 1..n : Piece(text[i], answered).exc
       THEN [resolved |-> <<>>, missing |-> <<>>, exc |-> TRUE, from |-> <<>>]
       ELSE [resolved |-> Flatten([i \in 1..n |-> Piece(text[i], answered).out]),
             missing |->
                Flatten([i \in 1..n |-> Piece(text[i], answered).missing]),
             exc |-> FALSE,
             from |-> Flatten([i \in 1..n |-> Piece(text[i], answered).from])]

\* --------------------------------------------------------- _search_tools
\* ------------------------------------------------------------ registry
\* tool_registry.py:145-327  the registered names the model uses
Registry ==
    {"get_stock_symbol", "get_sector_mapping", "get_macro_data",
     "get_exchange_info", "get_currency_rate", "get_income_statement",
     "get_balance_sheet", "analyze_cashflow", "calculate_ratios",
     "estimate_fair_value", "get_technical_indicators",
     "generate_stock_price_chart", "get_stock_price", "get_fundamentals",
     "get_risk_metrics", "search_news"}

\* agent.py:302-397  the keyword rules in evaluation order.  Keywords that
\* hold a space or a non-ASCII letter are left out: no text of the model
\* holds such a letter or two adjacent words that spell one of them.
Rule(tool, kws) == [tool |-> tool, kws |-> kws]

Rules ==
    << Rule("get_stock_symbol", {"ticker", "symbol"}),
       Rule("get_sector_mapping", {"sector", "industry"}),
       Rule("get_macro_data",
            {"inflation", "cpi", "gdp", "unemployment", "macro"}),
       Rule("get_exchange_info", {"exchange", "hose", "hnx", "upcom"}),
       Rule("get_currency_rate", {"usd", "vnd", "currency"}),
       Rule("get_income_statement",
            {"revenue", "profit", "earnings", "ebitda"}),
       Rule("get_balance_sheet", {"equity", "assets", "debt", "liabilities"}),
       Rule("analyze_cashflow", {"fcf"}),
       Rule("calculate_ratios",
            {"roe", "roa", "pe", "p/e", "pb", "p/b", "eps", "margin"}),
       Rule("estimate_fair_value", {"valuation", "dcf", "ddm", "peg"}),
       Rule("get_technical_indicators",
            {"rsi", "macd", "ma", "bollinger", "technical"}),
       Rule("generate_stock_price_chart",
            {"chart", "graph", "draw", "plot", "visualize"}),
       Rule("get_stock_price", {"price"}),
       Rule("get_fundamentals", {"fundamental", "profile"}),
       Rule("get_risk_metrics",
            {"risk", "volatility", "beta", "sharpe", "sortino", "drawdown",
             "var"}) >>

\* the keywords that are substrings of a word of the model, lower-cased
KeywordsIn(w) ==
    CASE w = "ticker" -> {"ticker"}
      [] w = "price" -> {"price"}
      [] w = "sector" -> {"sector"}
      [] w = "macro" -> {"macro", "ma"}
      [] w = "rsi" -> {"rsi"}
      [] OTHER -> {}

\* kw in q, q = resolved_subquestion.lower()
KeywordIn(kw, text) ==
    \E i \in 1..Len(text) :
        text[i].k \in {"w", "rv"} /\ kw \in KeywordsIn(text[i].c)

RuleMatches(r, text) == \E kw \in r.kws : KeywordIn(kw, text)

InSeq(x, s) == \E i \in 1..Len(s) : s[i] = x

\* if <rule> : if tool not in tools: tools.insert(0, tool)
RECURSIVE ApplyRules(_, _, _)
ApplyRules(rs, text, tools) ==
    IF rs = <<>> THEN tools
    ELSE LET r == Head(rs)
         IN ApplyRules(Tail(rs), text,
                IF RuleMatches(r, text) /\ ~InSeq(r.tool, tools)
                THEN <<r.tool>> \o tools ELSE tools)

\* agent.py:290-295  the hits the registry knows, in rank order
Registered(hits) == SelectSeq(hits, LAMBDA n : n \in Registry)

\* hits: the tool names of the similarity search (<<>> without an index)
search_tools(text, hits) == ApplyRules(Rules, text, Registered(hits))

\* ------------------------------------------- _map_aliases_to_signature
\* the declared parameters of some registered tools, in declaration order
SigSectorMapping == <<"ticker">>
SigStockPrice == <<"ticker", "stock_symbol", "stock_ticker">>
SigStockSymbol == <<"company_name", "country">>
SigSearchNews == <<"query", "ticker", "limit">>
SigMacroData == <<"country", "country_code", "indicator">>

\* the alias table without its synonyms: every name stands for itself
AliasMapOwn ==
    << Item("ticker", "ticker"), Item("company_name", "company_name"),
       Item("country", "country"), Item("country_code", "country_code"),
       Item("indicator", "indicator"), Item("query", "query"),
       Item("start_date", "start_date"), Item("end_date", "end_date"),
       Item("date", "date"), Item("period", "period"),
       Item("exchange", "exchange"),
       Item("from_currency", "from_currency"),
       Item("to_currency", "to_currency"), Item("amount", "amount") >>

\* agent.py:149-178  alias_map, in insertion order
AliasMap ==
    << Item("ticker_symbol", "ticker"), Item("stock_ticker", "ticker"),
       Item("stock_symbol", "ticker"), Item("symbol", "ticker"),
       Item("ticker", "ticker"),
       Item("company_name", "company_name"),
       Item("company", "company_name"), Item("name", "company_name"),
       Item("country", "country"), Item("country_code", "country_code"),
       Item("country_name", "country"),
       Item("indicator", "indicator"), Item("metric", "indicator"),
       Item("query", "query"), Item("q", "query"),
       Item("start_date", "start_date"), Item("end_date", "end_date"),
       Item("date", "date"), Item("period", "period"),
       Item("exchange", "exchange"),
       Item("from_currency", "from_currency"),
       Item("to_currency", "to_currency"), Item("amount", "amount") >>

\* mapped[k] = v: a new key goes last, an old key keeps its place
DictPut(d, k, v) ==
    IF HasKey(d, k)
    THEN [i \in 1..Len(d) |-> IF d[i].key = k THEN Item(k, v) ELSE d[i]]
    ELSE Append(d, Item(k, v))

\* agent.py:181-183  the raw keys that are parameter names, copied
RECURSIVE CopyDirect(_, _, _)
CopyDirect(args, params, mapped) ==
    IF args = <<>> THEN mapped
    ELSE CopyDirect(Tail(args), params,
            IF InSeq(Head(args).key, params)
            THEN DictPut(mapped, Head(args).key, Head(args).val)
            ELSE mapped)

\* for p in param_names: if lower == p.lower(): the first such p
SameLower(lower, params) ==
    SelectSeq(params, LAMBDA q : Lower(q) = lower)

\* for alias_k, target in alias_map.items():
\*     if alias_k.lower() == lower and target in param_names
LateAlias(lower, params) ==
    SelectSeq(AliasMap,
              LAMBDA a : Lower(a.key) = lower /\ InSeq(a.val, params))

\* agent.py:186-202  the body of the second loop for the raw item (k, v)
MapOne(k, v, params, mapped) ==
    LET lower == Lower(k)
        target == DictGet(AliasMap, lower)
    IN IF HasKey(mapped, k) THEN mapped
       ELSE IF target # None /\ InSeq(target[1], params)
       THEN DictPut(mapped, target[1], v)
       ELSE IF SameLower(lower, params) # <<>>
       THEN DictPut(mapped, SameLower(lower, params)[1], v)
       ELSE IF LateAlias(lower, params) # <<>>
       THEN DictPut(mapped, LateAlias(lower, params)[1].val, v)
       ELSE mapped

RECURSIVE MapAll(_, _, _)
MapAll(args, params, mapped) ==
    IF args = <<>> THEN mapped
    ELSE MapAll(Tail(args), params,
                MapOne(Head(args).key, Head(args).val, params, mapped))

\* agent.py:136-206  exc is the StopIteration of next(iter(args.values()))
\* on an empty args
map_aliases_to_signature(args, params) ==
    LET mapped == MapAll(args, params, CopyDirect(args, params, <<>>))
    IN IF mapped = <<>> /\ Len(params) = 1
       THEN IF args = <<>> THEN [exc |-> TRUE, mapped |-> <<>>]
            ELSE [exc |-> FALSE,
                  mapped |-> <<Item(params[1], args[1].val)>>]
       ELSE [exc |-> FALSE, mapped |-> mapped]

\* ------------------------------------------------------- built texts
\* str(extracted): the repr of a dict; its words carry quotes and braces,
\* so they are other words than the bare keys and values
Deco(p) == IF IsSpace(p) \/ IsColon(p) THEN p ELSE [p EXCEPT !.k = "rv"]

ReprText(t) ==
    IF t = <<>> THEN <<[k |-> "rv", c |-> "", sid |-> 0]>>
    ELSE [i \in 1..Len(t) |-> Deco(t[i])]

ReprDict(d) ==
    IF d = <<>> THEN <<W("{}")>>
    ELSE Flatten([i \in 1..Len(d) |->
            (IF i > 1 THEN <<SP>> ELSE <<>>)
            \o <<[k |-> "rv", c |-> d[i].key, sid |-> 0], COLON, SP>>
            \o ReprText(d[i].val)])

SkipTextBare(missing) ==
    <<W("SKIP"), COLON, SP, W("missing"), SP, W("placeholders")>>

\* f"SKIP: missing placeholders {missing}"
SkipText(missing) ==
    <<W("SKIP"), COLON, SP, W("missing"), SP, W("placeholders")>>
    \o Flatten([i \in 1..Len(missing) |-> <<SP, missing[i]>>])

\* f"ERROR executing tool {chosen_name}: {e}"
ErrorText(name, msg) ==
    <<W("ERROR"), SP, W("executing"), SP, W("tool"), SP,
      [k |-> "tool", c |-> name, sid |-> 0], COLON, SP>> \o msg

\* the message of the TypeError json.dumps raises on a value it cannot encode
JsonErr ==
    <<W("Object"), SP, W("of"), SP, W("type"), SP, W("X"), SP, W("is"), SP,
      W("not"), SP, W("JSON"), SP, W("serializable")>>

EmptyText == <<>>

\* final_out.get("text") or "No final text"
NoFinalText == <<W("No"), SP, W("final"), SP, W("text")>>

IsSkipText(a) == a # None /\ Len(a[1]) >= 1 /\ a[1][1] = W("SKIP")
IsErrorText(a) == a # None /\ Len(a[1]) >= 1 /\ a[1][1] = W("ERROR")

\* agent.py:498-501  the registered tool of that name, else the first
\* candidate
ChosenTool(fname, tools) == IF fname \in Registry THEN fname ELSE tools[1]

\* -------------------------------------------------------- decomposition
\* the oracle's answer to the decomposition request after _clean_json_str
\* and json.loads: kind is "none" (no text), "unparsable", "nonobject" (JSON
\* that is no object) or "object"; has tells whether the object holds
\* "subquestions"; an entry is valid when SubQuestion(**entry) accepts it
Resp(kind, has, subs) == [kind |-> kind, has |-> has, subs |-> subs]
Entry(valid, node) == [valid |-> valid, node |-> node]

\* models.SubQuestion(**s): raises on an entry that is no valid node
SubQuestionOk(e) == e.valid

\* no fallback: an answer that cannot be parsed gives no node
FallbackNone(user_query) == <<>>

\* agent.py:282  the single node made of the query
Fallback(user_query) == <<Node(1, user_query, <<>>)>>

\* agent.py:272-282
generate_subquestions_from_query(user_query, resp) ==
    IF resp.kind # "object" THEN Fallback(user_query)
    ELSE LET subs == IF resp.has THEN resp.subs ELSE <<>>
         IN IF \E i \in 1..Len(subs) : ~SubQuestionOk(subs[i])
            THEN Fallback(user_query)
            ELSE [i \in 1..Len(subs) |-> subs[i].node]

\* ----------------------------------------------------------------- state
VARIABLES
    runs,                   \* requests accepted so far
    req,                    \* the request being served: kind, message
    http,                   \* status of the last chat response
    a_pc,                   \* where agent.answer stands
    decomp,                 \* the oracle's answer to the decomposition request (observer)
    subs_raw,               \* answer: subs_raw
    ordered,                \* answer: ordered
    idx,                    \* answer: nodes of ordered already left behind
    answered,               \* answer: answered_by_id, in insertion order
    cur,                    \* answer: the node whose tool is being called
    final_text,             \* answer: final_text
    result,                 \* what answer returned (None before)
    ops,                    \* what this run did so far (observer)
    tool_callback,          \* agent.tool_callback: none, session or queue
    event_queue,            \* event_generator: event_queue
    g_pc,                   \* where event_generator stands
    delivered,              \* the events yielded to the client
    chunks,                 \* content chunks still to be yielded
    conversation_history,   \* agent.conversation_history
    completed,              \* exchanges appended since the last clear (observer)
    session_history,        \* sessions[session_id]["history"]
    clock,                  \* source of the timestamps
    call,                   \* a function called on its own: name, arguments
    ret,                    \* what that call returned (None before)
    messages,               \* ChatHistory.messages
    h_pc,                   \* where ChatHistory.add_message stands
    added                   \* add_message calls so far, source of timestamps

vars ==
    <<runs, req, http, a_pc, decomp, subs_raw, ordered, idx, answered, cur,
      final_text, result, ops, tool_callback, event_queue, g_pc, delivered,
      chunks, conversation_history, completed, session_history, clock,
      call, ret, messages, h_pc, added>>

callVars == <<call, ret>>
chatVars == <<messages, h_pc, added>>
runVars == <<decomp, subs_raw, ordered, idx, answered, cur, final_text, result>>
streamVars == <<event_queue, g_pc, delivered, chunks>>
historyVars == <<conversation_history, completed, clock>>

NoResp == [kind |-> "", has |-> FALSE, subs |-> <<>>]
NoReq == [kind |-> "none", message |-> <<>>]
NoCur == [id |-> 0, resolved |-> <<>>, tool |-> ""]
NoCall == [fn |-> ""]

\* src: the ids a substitution read, or the message of an exception
Op(op, id, tool, src) == [op |-> op, id |-> id, tool |-> tool, src |-> src]
QEvent(type, tool) == [type |-> type, tool_name |-> tool]
Sse(type, tool, report, recs) ==
    [type |-> type, tool |-> tool, final_report |-> report,
     answered_subquestions |-> recs]

\* the event put at the head of the queue
EmitFront(q, ev) == IF tool_callback = "queue" THEN <<ev>> \o q ELSE q

\* self.tool_callback(event) when a callback is set; the session callback
\* of main.py:164-167 is replaced at main.py:187 before any event
Emit(q, ev) == IF tool_callback = "queue" THEN Append(q, ev) ELSE q

Init ==
    /\ runs = 0
    /\ req = NoReq
    /\ http = ""
    /\ a_pc = "idle"
    /\ decomp = NoResp
    /\ subs_raw = <<>>
    /\ ordered = <<>>
    /\ idx = 0
    /\ answered = <<>>
    /\ cur = NoCur
    /\ final_text = <<>>
    /\ result = None
    /\ ops = <<>>
    /\ tool_callback = "none"
    /\ event_queue = <<>>
    /\ g_pc = "idle"
    /\ delivered = <<>>
    /\ chunks = 0
    /\ conversation_history = <<>>
    /\ completed = <<>>
    /\ session_history = <<>>
    /\ clock = 0
    /\ call = NoCall
    /\ ret = None
    /\ messages = <<>>
    /\ h_pc = "idle"
    /\ added = 0

\* ------------------------------------------------------- agent.answer
\* agent.py:434-435  subs = generate_subquestions_from_query(user_query)
Decompose(resps) ==
    /\ a_pc = "start"
    /\ \E resp \in resps :
        /\ decomp' = resp
        /\ subs_raw' = generate_subquestions_from_query(req.message, resp)
    /\ ops' = Append(ops, Op("decompose", 0, "", <<>>))
    /\ a_pc' = "sort"
    /\ UNCHANGED <<callVars, chatVars, runs, req, http, ordered, idx, answered, cur, final_text,
                   result, tool_callback, streamVars, historyVars,
                   session_history>>

\* agent.py:436-437  ordered = topo_sort_subquestions(subs_raw)
Sort ==
    /\ a_pc = "sort"
    /\ LET r == topo_sort_subquestions(subs_raw)
       IN IF r.err # ""
          THEN /\ a_pc' = "raised"
               /\ UNCHANGED <<ordered, idx, answered>>
          ELSE /\ a_pc' = "node"
               /\ ordered' = r.result
               /\ idx' = 0
               /\ answered' = <<>>
    /\ UNCHANGED <<callVars, chatVars, runs, req, http, decomp, subs_raw, cur, final_text, result, ops,
                   tool_callback, streamVars, historyVars, session_history>>

\* the oracle's answer to a sub-question: its text, and the name of the
\* function_call left after agent.py:466-485 (None: no directive)
Out(text, fc) == [text |-> text, fc |-> fc]

\* what a tool call does: raise with a message, return a dict, return a
\* JSON value that is no dict (msg is its text), or return a value json.dumps
\* cannot encode
Raise(msg) == [kind |-> "raise", msg |-> msg, data |-> <<>>]
RetDict(d) == [kind |-> "dict", msg |-> <<>>, data |-> d]
RetValue(v) == [kind |-> "value", msg |-> v, data |-> <<>>]
RetOpaque == [kind |-> "opaque", msg |-> <<>>, data |-> <<>>]

\* agent.py:439-519  one pass of the loop body up to the tool call
NodeStep(hitsets, outs) ==
    /\ a_pc = "node"
    /\ idx < Len(ordered)
    /\ LET sq == ordered[idx + 1]
           r == resolve_placeholders(sq.question, answered)
           sub == IF r.from = <<>> THEN <<>>
                  ELSE <<Op("subst", sq.id, "", r.from)>>
       IN IF r.exc
          THEN /\ a_pc' = "raised"
               /\ UNCHANGED <<idx, answered, cur, ops, event_queue>>
          ELSE IF r.missing # <<>>
          THEN /\ answered' = PutAnswer(answered,
                    Rec(sq.id, Some(SkipText(r.missing)), <<>>, <<>>))
               /\ idx' = idx + 1
               /\ ops' = ops \o sub \o <<Op("skipped", sq.id, "", <<>>)>>
               /\ UNCHANGED <<a_pc, cur, event_queue>>
          ELSE \E hits \in hitsets : \E out \in outs :
               LET tools == search_tools(r.resolved, hits)
                   asked == ops \o sub \o <<Op("oracle", sq.id, "", <<>>)>>
               IN IF tools = <<>>
                  THEN /\ answered' = PutAnswer(answered,
                            Rec(sq.id, Or(out.text, Some(<<>>)), <<>>, <<>>))
                       /\ idx' = idx + 1
                       /\ ops' = Append(asked, Op("answered", sq.id, "", <<>>))
                       /\ UNCHANGED <<a_pc, cur, event_queue>>
                  ELSE IF out.fc = None
                  THEN /\ answered' = PutAnswer(answered,
                            Rec(sq.id, out.text, <<>>, <<>>))
                       /\ idx' = idx + 1
                       /\ ops' = Append(asked, Op("answered", sq.id, "", <<>>))
                       /\ UNCHANGED <<a_pc, cur, event_queue>>
                  ELSE LET name == ChosenTool(out.fc[1], tools)
                       IN /\ cur' = [id |-> sq.id, resolved |-> r.resolved,
                                     tool |-> name]
                          /\ event_queue' =
                                Emit(event_queue, QEvent("tool_start", name))
                          /\ ops' = Append(asked,
                                Op("tool_start", sq.id, name, <<>>))
                          /\ a_pc' = "tool"
                          /\ UNCHANGED <<idx, answered>>
    /\ UNCHANGED <<callVars, chatVars, runs, req, http, decomp, subs_raw, ordered, final_text, result,
                   tool_callback, g_pc, delivered, chunks, historyVars,
                   session_history>>

\* agent.py:521-557  the tool call, its completion event, the follow-up
\* request to the oracle and the record; the except branch on a raise
ToolStep(outcomes, texts) ==
    /\ a_pc = "tool"
    /\ \E oc \in outcomes : \E t \in texts :
        LET extracted == IF oc.kind = "dict" THEN oc.data
                         ELSE <<Item("result", oc.msg)>>
            called == Append(ops, Op("tool", cur.id, cur.tool, <<>>))
        IN IF oc.kind = "raise"
           THEN /\ answered' = PutAnswer(answered,
                    Rec(cur.id, Some(ErrorText(cur.tool, oc.msg)),
                        <<cur.tool>>, <<>>))
                /\ ops' = Append(called, Op("errored", cur.id, cur.tool, oc.msg))
                /\ UNCHANGED event_queue
           ELSE IF oc.kind = "opaque"
           THEN /\ event_queue' =
                    Emit(event_queue, QEvent("tool_complete", cur.tool))
                /\ answered' = PutAnswer(answered,
                    Rec(cur.id, Some(ErrorText(cur.tool, JsonErr)),
                        <<cur.tool>>, <<>>))
                /\ ops' = called
                          \o <<Op("tool_complete", cur.id, cur.tool, <<>>),
                               Op("errored", cur.id, cur.tool, JsonErr)>>
           ELSE /\ event_queue' =
                    Emit(event_queue, QEvent("tool_complete", cur.tool))
                /\ answered' = PutAnswer(answered,
                    Rec(cur.id, Or(t, Some(ReprDict(extracted))),
                        <<cur.tool>>, extracted))
                /\ ops' = called
                          \o <<Op("tool_complete", cur.id, cur.tool, <<>>),
                               Op("followup", cur.id, cur.tool, <<>>),
                               Op("answered", cur.id, cur.tool, <<>>)>>
    /\ idx' = idx + 1
    /\ cur' = NoCur
    /\ a_pc' = "node"
    /\ UNCHANGED <<callVars, chatVars, runs, req, http, decomp, subs_raw, ordered, final_text, result,
                   tool_callback, g_pc, delivered, chunks, historyVars,
                   session_history>>

\* agent.py:568-588  the request for the final narrative
Synthesize(texts) ==
    /\ a_pc = "node"
    /\ idx = Len(ordered)
    /\ \E t \in texts : final_text' = Or(t, Some(NoFinalText))[1]
    /\ ops' = Append(ops, Op("synth", 0, "", <<>>))
    /\ a_pc' = "append"
    /\ UNCHANGED <<callVars, chatVars, runs, req, http, decomp, subs_raw, ordered, idx, answered, cur,
                   result, tool_callback, streamVars, historyVars,
                   session_history>>

\* the exchange; its snapshot of the records is left out, nothing reads it
Exchange(q, a, ts) ==
    [user_query |-> q, assistant_response |-> a, timestamp |-> ts]

\* agent.py:591-596  self.conversation_history.append(...)
AppendHistory ==
    /\ a_pc = "append"
    /\ LET ex == Exchange(req.message, final_text, clock + 1)
       IN /\ conversation_history' = Append(conversation_history, ex)
          /\ completed' = Append(completed, ex)
    /\ clock' = clock + 1
    /\ ops' = Append(ops, Op("append", 0, "", <<>>))
    /\ a_pc' = "trim"
    /\ UNCHANGED <<callVars, chatVars, runs, req, http, runVars, tool_callback, streamVars,
                   session_history>>

\* the slice lst[:n], taken from the front
FirstN(lst, n) == IF Len(lst) <= n THEN lst ELSE SubSeq(lst, 1, n)

\* lst[-n:] for n >= 1
LastN(lst, n) ==
    IF Len(lst) <= n THEN lst ELSE SubSeq(lst, Len(lst) - n + 1, Len(lst))

\* agent.py:599-606  the trim to the last 10 exchanges, and the return
TrimHistory ==
    /\ a_pc = "trim"
    /\ conversation_history' =
        IF Len(conversation_history) > HistoryCap
        THEN LastN(conversation_history, HistoryCap)
        ELSE conversation_history
    /\ result' = Some([report |-> final_text,
                       answered_subquestions |-> answered])
    /\ a_pc' = "returned"
    /\ UNCHANGED <<callVars, chatVars, runs, req, http, decomp, subs_raw, ordered, idx, answered, cur,
                   final_text, ops, tool_callback, streamVars, completed,
                   clock, session_history>>

\* agent.py:612-615  clear_conversation_history, served by main.py:304-317;
\* chat (main.py:82) holds the event loop while its run lasts
ClearHistory ==
    /\ ~(req.kind = "chat")
    /\ conversation_history # <<>> \/ completed # <<>>
    /\ conversation_history' = <<>>
    /\ completed' = <<>>
    /\ UNCHANGED <<callVars, chatVars, runs, req, http, a_pc, runVars, ops, tool_callback,
                   streamVars, session_history, clock>>

\* ------------------------------------------------------------ main.py
\* not message or not message.strip()
Blank(m) == Strip(m) = <<>>

\* the locals of a new run; the events of the previous one are forgotten
FreshRun ==
    /\ decomp' = NoResp
    /\ subs_raw' = <<>>
    /\ ordered' = <<>>
    /\ idx' = 0
    /\ answered' = <<>>
    /\ cur' = NoCur
    /\ final_text' = <<>>
    /\ result' = None
    /\ ops' = <<>>
    /\ event_queue' = <<>>
    /\ chunks' = 0

\* main.py:57-78  the ids of sessions: the one init_session made
Sessions == {"s1"}

\* main.py:82-113  chat up to the call of agent.answer; limit bounds the
\* requests of a behaviour
ChatBegin(msgs, sids, limit) ==
    /\ req.kind = "none"
    /\ runs < limit
    /\ \E m \in msgs : \E sid \in sids :
        IF sid \notin Sessions
        THEN /\ http' = "404"
             /\ UNCHANGED <<runs, req, a_pc, runVars, ops, streamVars>>
        ELSE IF Blank(m)
        THEN /\ http' = "400"
             /\ UNCHANGED <<runs, req, a_pc, runVars, ops, streamVars>>
        ELSE /\ req' = [kind |-> "chat", message |-> m]
             /\ runs' = runs + 1
             /\ a_pc' = "start"
             /\ g_pc' = "idle"
             /\ delivered' = <<>>
             /\ FreshRun
             /\ UNCHANGED http
    /\ UNCHANGED <<callVars, chatVars, tool_callback, historyVars, session_history>>

HistoryEntry(m, r) == [user_message |-> m, report |-> r]

\* main.py:113-127  agent.answer returned
ChatEnd ==
    /\ req.kind = "chat"
    /\ a_pc = "returned"
    /\ session_history' =
        Append(session_history, HistoryEntry(req.message, result[1].report))
    /\ http' = "200"
    /\ req' = NoReq
    /\ a_pc' = "idle"
    /\ UNCHANGED <<callVars, chatVars, runs, runVars, ops, tool_callback, streamVars, historyVars>>

\* main.py:128-129  agent.answer raised
ChatFail ==
    /\ req.kind = "chat"
    /\ a_pc = "raised"
    /\ http' = "500"
    /\ req' = NoReq
    /\ a_pc' = "idle"
    /\ UNCHANGED <<callVars, chatVars, runs, runVars, ops, tool_callback, streamVars, historyVars,
                   session_history>>

\* main.py:135  {'error': 'Session not found'}: an object without a type
\* key (NoType stands for the key that is not there)
NoType == ""
SessionNotFound == Sse(NoType, "", <<>>, <<>>)

\* main.py:134-170  event_generator up to its first yield; upd is what the
\* model update does: "none" (no model given or the same one), "ok", or
\* "raise" (the client cannot be built), which the except of main.py:250
\* turns into an error event
StreamBegin(msgs, upds, sids, limit) ==
    /\ req.kind = "none"
    /\ runs < limit
    /\ \E m \in msgs : \E upd \in upds : \E sid \in sids :
        IF sid \notin Sessions
        THEN /\ delivered' = <<SessionNotFound>>
             /\ g_pc' = "finished"
             /\ UNCHANGED <<runs, req, a_pc, runVars, ops, tool_callback,
                            event_queue, chunks>>
        ELSE /\ runs' = runs + 1
             /\ FreshRun
             /\ a_pc' = "idle"
             /\ IF upd = "raise"
                THEN /\ delivered' = <<Sse("error", "", <<>>, <<>>)>>
                     /\ g_pc' = "finished"
                     /\ req' = NoReq
                     /\ UNCHANGED tool_callback
                ELSE /\ delivered' = <<Sse("start", "", <<>>, <<>>)>>
                     /\ g_pc' = "reasoning"
                     /\ req' = [kind |-> "stream", message |-> m]
                     /\ tool_callback' = "session"
    /\ UNCHANGED <<callVars, chatVars, http, historyVars, session_history>>

\* main.py:173-193  the reasoning event, the queue and the worker thread
GenReasoning ==
    /\ g_pc = "reasoning"
    /\ delivered' = Append(delivered, Sse("reasoning", "", <<>>, <<>>))
    /\ event_queue' = <<>>
    /\ result' = None
    /\ a_pc' = "spawned"
    /\ g_pc' = "get"
    /\ UNCHANGED <<callVars, chatVars, runs, req, http, decomp, subs_raw, ordered, idx, answered, cur,
                   final_text, ops, tool_callback, chunks, historyVars,
                   session_history>>

\* main.py:182-188  process_answer: the callback, then agent.answer
WorkerInit ==
    /\ a_pc = "spawned"
    /\ tool_callback' = "queue"
    /\ a_pc' = "start"
    /\ UNCHANGED <<callVars, chatVars, runs, req, http, runVars, ops, streamVars, historyVars,
                   session_history>>

Sentinel == QEvent("sentinel", "")

\* the sentinel put at the head of the queue
WorkerExitFirst ==
    /\ req.kind = "stream"
    /\ a_pc = "returned"
    /\ event_queue' = <<Sentinel>> \o event_queue
    /\ a_pc' = "exited"
    /\ UNCHANGED <<callVars, chatVars, runs, req, http, runVars, ops, tool_callback, g_pc,
                   delivered, chunks, historyVars, session_history>>

\* main.py:188-189  agent.answer returned: result is set, None is queued
WorkerExit ==
    /\ req.kind = "stream"
    /\ a_pc = "returned"
    /\ event_queue' = Append(event_queue, Sentinel)
    /\ a_pc' = "exited"
    /\ UNCHANGED <<callVars, chatVars, runs, req, http, runVars, ops, tool_callback, g_pc,
                   delivered, chunks, historyVars, session_history>>

\* the queued event sent on under its own type
ForwardRaw(ev) == <<Sse(ev.type, ev.tool_name, <<>>, <<>>)>>

\* main.py:204-207  what is yielded for a queued event: tool_start becomes
\* tool_call, tool_complete stays, anything else is dropped
Forward(ev) ==
    IF ev.type = "tool_start"
    THEN <<Sse("tool_call", ev.tool_name, <<>>, <<>>)>>
    ELSE IF ev.type = "tool_complete"
    THEN <<Sse("tool_complete", ev.tool_name, <<>>, <<>>)>>
    ELSE <<>>

\* main.py:196-209  event_queue.get(timeout=0.1) and what follows it
GenGet ==
    /\ g_pc = "get"
    /\ IF event_queue = <<>>
       THEN /\ g_pc' = "sleep"
            /\ UNCHANGED <<event_queue, delivered>>
       ELSE LET ev == Head(event_queue)
            IN /\ event_queue' = Tail(event_queue)
               /\ IF ev = Sentinel
                  THEN g_pc' = "join" /\ UNCHANGED delivered
                  ELSE /\ g_pc' = "get"
                       /\ delivered' = delivered \o Forward(ev)
    /\ UNCHANGED <<callVars, chatVars, runs, req, http, a_pc, runVars, ops, tool_callback, chunks,
                   historyVars, session_history>>

\* main.py:209-210  queue.Empty: await asyncio.sleep(0.05)
GenSleep ==
    /\ g_pc = "sleep"
    /\ g_pc' = "get"
    /\ UNCHANGED <<callVars, chatVars, runs, req, http, a_pc, runVars, ops, tool_callback,
                   event_queue, delivered, chunks, historyVars,
                   session_history>>

\* the number of characters of a word of a report
WordLen(p) ==
    CASE p.c = "No" -> 2
      [] p.c = "final" -> 5
      [] p.c = "text" -> 4
      [] p.c = "FPT" -> 3
      [] p.c = "ok" -> 2

\* main.py:222-232  a chunk ends at a space, at punctuation and at ten
\* characters; n chunks are closed and len characters are pending
RECURSIVE CountChunks(_, _, _)
CountChunks(t, n, len) ==
    IF t = <<>> THEN (IF len > 0 THEN n + 1 ELSE n)
    ELSE IF IsSpace(Head(t)) \/ IsColon(Head(t))
    THEN CountChunks(Tail(t), n + 1, 0)
    ELSE LET l == len + WordLen(Head(t))
         IN CountChunks(Tail(t), n + (l \div 10), l % 10)

NumChunks(t) == CountChunks(t, 0, 0)

\* main.py:213-232  thread.join(), the callback reset, the chunks
GenJoin ==
    /\ g_pc = "join"
    /\ a_pc = "exited"
    /\ tool_callback' = "none"
    /\ chunks' = NumChunks(IF result = None THEN <<>> ELSE result[1].report)
    /\ g_pc' = "content"
    /\ UNCHANGED <<callVars, chatVars, runs, req, http, a_pc, runVars, ops, event_queue,
                   delivered, historyVars, session_history>>

\* main.py:235-238  one content event
GenContent ==
    /\ g_pc = "content"
    /\ chunks > 0
    /\ delivered' = Append(delivered, Sse("content", "", <<>>, <<>>))
    /\ chunks' = chunks - 1
    /\ UNCHANGED <<callVars, chatVars, runs, req, http, a_pc, runVars, ops, tool_callback,
                   event_queue, g_pc, historyVars, session_history>>

\* main.py:241-248  the done event and the session history
GenDone ==
    /\ g_pc = "content"
    /\ chunks = 0
    /\ LET report == IF result = None THEN <<>> ELSE result[1].report
           recs == IF result = None THEN <<>>
                   ELSE result[1].answered_subquestions
       IN /\ delivered' = Append(delivered, Sse("done", "", report, recs))
          /\ session_history' =
                Append(session_history, HistoryEntry(req.message, report))
    /\ g_pc' = "finished"
    /\ req' = NoReq
    /\ a_pc' = "idle"
    /\ UNCHANGED <<callVars, chatVars, runs, http, runVars, ops, tool_callback, event_queue,
                   chunks, historyVars>>

\* ------------------------------------------------------------- inputs
Hello == <<W("hello")>>
FindTicker == <<W("find"), SP, W("ticker")>>
PriceOf(j) == <<W("price"), SP, W("of"), SP, PH("TICKER", j)>>
Fpt == <<W("FPT")>>
OkColon == <<W("ok"), COLON>>

\* what the oracle may answer as text: nothing, a word, a text that ends
\* in a colon
OracleTexts == {None, Some(Fpt), Some(OkColon)}

\* what it may answer to a follow-up or to the synthesis request
ReplyTexts == {None, Some(Fpt)}

\* what it may answer to the synthesis request: the empty text as well
SynthTexts == ReplyTexts \cup {Some(<<>>)}

\* the directives: a registered tool, a name the registry does not know
OracleOuts ==
    {Out(t, None) : t \in OracleTexts}
    \cup {Out(None, Some(f)) : f \in {"get_stock_price", "no_such_tool"}}

\* the similarity search: no index or no hit, or one hit
SemanticHits == {<<>>, <<"search_news">>}

ToolOutcomes ==
    {Raise(<<>>), Raise(<<W("boom")>>), RetDict(<<Item("ticker", Fpt)>>),
     RetValue(Fpt), RetOpaque}

\* the questions of a node in a list of n nodes
Questions(n) == {FindTicker} \cup {PriceOf(j) : j \in 1..n}

\* its depends_on: nothing, or one id, the id n+1 of no node among them
RunDeps(n) == {<<>>} \cup {<<j>> : j \in 1..(n + 1)}

RunLists ==
    UNION {{[i \in 1..n |-> Node(i, q[i], d[i])] :
                q \in [1..n -> Questions(n)], d \in [1..n -> RunDeps(n)]} :
           n \in 0..RunNodes}

BadEntry == Entry(FALSE, Node(1, Hello, <<>>))

\* two nodes that carry the same id
SameId ==
    <<Entry(TRUE, Node(1, FindTicker, <<>>)),
      Entry(TRUE, Node(1, FindTicker, <<>>))>>

DecompResponses ==
    {Resp("none", FALSE, <<>>), Resp("unparsable", FALSE, <<>>),
     Resp("nonobject", FALSE, <<>>), Resp("object", FALSE, <<>>),
     Resp("object", TRUE, <<BadEntry>>), Resp("object", TRUE, SameId)}
    \cup {Resp("object", TRUE, [i \in 1..Len(l) |-> Entry(TRUE, l[i])]) :
            l \in RunLists}

Messages == {Hello, <<>>, <<SP>>}
ModelUpdates == {"none", "raise"}

\* ------------------------------------------------------ specifications
Next ==
    \/ ChatBegin(Messages, Sessions, MaxRuns)
    \/ ChatEnd
    \/ ChatFail
    \/ StreamBegin({Hello}, ModelUpdates, Sessions, MaxRuns)
    \/ GenReasoning
    \/ WorkerInit
    \/ Decompose(DecompResponses)
    \/ Sort
    \/ NodeStep(SemanticHits, OracleOuts)
    \/ ToolStep(ToolOutcomes, ReplyTexts)
    \/ Synthesize(SynthTexts)
    \/ AppendHistory
    \/ TrimHistory
    \/ WorkerExit
    \/ GenGet
    \/ GenSleep
    \/ GenJoin
    \/ GenContent
    \/ GenDone
    \/ ClearHistory

Spec == Init /\ [][Next]_vars

\* ------------------------------------------- the scheduler on its own
\* a finite set of naturals as the increasing list of its elements
RECURSIVE SeqOf(_)
SeqOf(S) ==
    IF S = {} THEN <<>>
    ELSE LET m == CHOOSE x \in S : \A y \in S : x <= y
         IN <<m>> \o SeqOf(S \ {m})

\* depends_on lists over the ids 1..n: every subset, and the lists that
\* name the id n+1 no node has
DepLists(n) ==
    {SeqOf(S) : S \in SUBSET (1..n)}
    \cup {SeqOf(S \cup {n + 1}) : S \in {{}} \cup {{i} : i \in 1..n}}

\* the ids in input order: ascending or descending
IdOrders(n) == {[i \in 1..n |-> i], [i \in 1..n |-> n + 1 - i]}

TopoList(n, o, d) == [i \in 1..n |-> Node(o[i], <<>>, d[i])]

InitTopo ==
    /\ runs = 1
    /\ req = [kind |-> "chat", message |-> <<>>]
    /\ http = ""
    /\ a_pc = "sort"
    /\ decomp = NoResp
    /\ \E n \in 0..MaxNodes : \E o \in IdOrders(n) :
        \E d \in [1..n -> DepLists(n)] : subs_raw = TopoList(n, o, d)
    /\ ordered = <<>>
    /\ idx = 0
    /\ answered = <<>>
    /\ cur = NoCur
    /\ final_text = <<>>
    /\ result = None
    /\ ops = <<Op("decompose", 0, "", <<>>)>>
    /\ tool_callback = "none"
    /\ event_queue = <<>>
    /\ g_pc = "idle"
    /\ delivered = <<>>
    /\ chunks = 0
    /\ conversation_history = <<>>
    /\ completed = <<>>
    /\ session_history = <<>>
    /\ clock = 0
    /\ call = NoCall
    /\ ret = None
    /\ messages = <<>>
    /\ h_pc = "idle"
    /\ added = 0

NextTopo == Sort

SpecTopo == InitTopo /\ [][NextTopo]_vars


\* ------------------------------------- one streamed run, with scheduling
\* the decomposition answers of a streamed run: no JSON, two nodes that
\* depend on each other, one node, two nodes in a chain
StreamResponses ==
    {Resp("unparsable", FALSE, <<>>),
     Resp("object", TRUE, <<Entry(TRUE, Node(1, FindTicker, <<2>>)),
                            Entry(TRUE, Node(2, FindTicker, <<1>>))>>),
     Resp("object", TRUE, <<Entry(TRUE, Node(1, FindTicker, <<>>))>>),
     Resp("object", TRUE, <<Entry(TRUE, Node(1, FindTicker, <<>>)),
                            Entry(TRUE, Node(2, FindTicker, <<1>>))>>)}

StreamOuts == {Out(Some(Fpt), None), Out(None, Some("get_stock_price"))}

StreamOutcomes == {Raise(<<W("boom")>>), RetValue(Fpt)}

\* main.py:182-189  the steps of the worker thread
Worker ==
    \/ WorkerInit
    \/ Decompose(StreamResponses)
    \/ Sort
    \/ NodeStep({<<>>}, StreamOuts)
    \/ ToolStep(StreamOutcomes, {None})
    \/ Synthesize({None})
    \/ AppendHistory
    \/ TrimHistory
    \/ WorkerExit

\* main.py:173-248  the steps of event_generator after its first yield
Generator ==
    \/ GenReasoning
    \/ GenGet
    \/ GenSleep
    \/ GenJoin
    \/ GenContent
    \/ GenDone

NextStream ==
    \/ StreamBegin({Hello}, ModelUpdates, Sessions, MaxRuns)
    \/ Worker
    \/ Generator

\* the thread and the event loop both keep running: a step of the worker
\* that stays possible is taken, and so is a step of the generator
SpecStream ==
    Init /\ [][NextStream]_vars /\ WF_vars(Worker) /\ WF_vars(Generator)

\* ----------------------------------------- many chat runs on one agent
\* the decomposition answers: no JSON, or one node that depends on itself
HistoryResponses ==
    {Resp("unparsable", FALSE, <<>>),
     Resp("object", TRUE, <<Entry(TRUE, Node(1, FindTicker, <<1>>))>>)}

NextHistory ==
    \/ ChatBegin({Hello}, Sessions, HistoryCap + ExtraRuns)
    \/ Decompose(HistoryResponses)
    \/ Sort
    \/ NodeStep({<<>>}, {Out(Some(Fpt), None)})
    \/ Synthesize({Some(Fpt)})
    \/ AppendHistory
    \/ TrimHistory
    \/ ChatEnd
    \/ ChatFail
    \/ ClearHistory

SpecHistory == Init /\ [][NextHistory]_vars

\* ------------------------------------- requests as the endpoints get them
\* the session id of a request: the session's, or one no session has
SessionIds == Sessions \cup {"s0"}

\* main.py:81-265  chat and chat_stream on any message for any session id;
\* the run that follows has one node the oracle answers, or fails to sort
NextRequests ==
    \/ ChatBegin(Messages, SessionIds, MaxRuns)
    \/ ChatEnd
    \/ ChatFail
    \/ StreamBegin(Messages, ModelUpdates, SessionIds, MaxRuns)
    \/ GenReasoning
    \/ WorkerInit
    \/ Decompose(HistoryResponses)
    \/ Sort
    \/ NodeStep({<<>>}, {Out(Some(Fpt), None)})
    \/ Synthesize({Some(Fpt)})
    \/ AppendHistory
    \/ TrimHistory
    \/ WorkerExit
    \/ GenGet
    \/ GenSleep
    \/ GenJoin
    \/ GenContent
    \/ GenDone

SpecRequests == Init /\ [][NextRequests]_vars

\* --------------------------- history reads beside streamed runs
\* main.py:290-302  GET /api/session/{id}/history: the copy of the agent's
\* history (agent.py:608-610) and its length. The handler runs on the event
\* loop: not while chat (main.py:82) holds it, but at any await of
\* event_generator, whatever statement the worker thread has reached. A
\* session id no session has is answered 404 and reads nothing.
get_conversation_history(sids) ==
    /\ ~(req.kind = "chat")
    /\ \E sid \in sids \cap Sessions :
        /\ call' = [fn |-> "get_conversation_history", session_id |-> sid]
        /\ ret' = Some([session_id |-> sid,
                        conversation_history |-> conversation_history,
                        total_exchanges |-> Len(conversation_history)])
    /\ UNCHANGED <<runs, req, http, a_pc, runVars, ops, tool_callback,
                   streamVars, historyVars, session_history, chatVars>>

\* streamed runs on one agent, each with one node the oracle answers, and
\* history reads at any moment
NextReads ==
    \/ StreamBegin({Hello}, {"none"}, Sessions, HistoryCap + ExtraRuns)
    \/ GenReasoning
    \/ WorkerInit
    \/ Decompose({Resp("unparsable", FALSE, <<>>)})
    \/ Sort
    \/ NodeStep({<<>>}, {Out(Some(Fpt), None)})
    \/ Synthesize({Some(Fpt)})
    \/ AppendHistory
    \/ TrimHistory
    \/ WorkerExit
    \/ GenGet
    \/ GenSleep
    \/ GenJoin
    \/ GenContent
    \/ GenDone
    \/ get_conversation_history(SessionIds)

SpecReads == Init /\ [][NextReads]_vars

\* ------------------------------------------------ ChatHistory
\* a text of n characters
Chars(n) == [i \in 1..n |-> "a"]

\* gemini_wrapper.py:49-53  the message add_message appends
Message(role, content, ts) ==
    [role |-> role, content |-> content, timestamp |-> ts]

\* lst[i:] for any integer i
PySliceFrom(lst, i) ==
    LET n == Len(lst)
        start == IF i < 0 THEN (IF n + i < 0 THEN 0 ELSE n + i)
                 ELSE (IF i > n THEN n ELSE i)
    IN SubSeq(lst, start + 1, n)

system_msgs(ms) == SelectSeq(ms, LAMBDA m : m.role = "system")
other_msgs(ms) == SelectSeq(ms, LAMBDA m : m.role # "system")

\* gemini_wrapper.py:63-69  the trim by message count
TrimByCount(ms) ==
    IF Len(ms) > max_messages
    THEN LET keep_count == max_messages - Len(system_msgs(ms))
         IN system_msgs(ms) \o PySliceFrom(other_msgs(ms), 0 - keep_count)
    ELSE ms

\* sum(len(m.get("content", "")) for m in self.messages)
RECURSIVE total_chars(_)
total_chars(ms) ==
    IF ms = <<>> THEN 0 ELSE Len(ms[1].content) + total_chars(Tail(ms))

estimated_tokens(ms) == total_chars(ms) \div 4

\* gemini_wrapper.py:78-81  the for loop: the first message that is not a
\* system message is popped; without one the list stays as it is
PopFirstOther(ms) ==
    IF \E i \in 1..Len(ms) : ms[i].role # "system"
    THEN LET i == CHOOSE i \in 1..Len(ms) :
                    /\ ms[i].role # "system"
                    /\ \A j \in 1..(i - 1) : ms[j].role = "system"
         IN SubSeq(ms, 1, i - 1) \o SubSeq(ms, i + 1, Len(ms))
    ELSE ms

\* gemini_wrapper.py:47-75  add_message: the append, and _trim_history up to
\* the test that guards the token loop
add_message(roles, contents) ==
    /\ h_pc = "idle"
    /\ added < MaxAdds
    /\ \E role \in roles : \E content \in contents :
        LET trimmed ==
              TrimByCount(Append(messages, Message(role, content, added + 1)))
        IN /\ messages' = trimmed
           /\ h_pc' = IF estimated_tokens(trimmed) > max_tokens_estimate
                      THEN "loop" ELSE "idle"
    /\ added' = added + 1
    /\ UNCHANGED <<callVars, runs, req, http, a_pc, runVars, ops,
                   tool_callback, streamVars, historyVars, session_history>>

\* gemini_wrapper.py:77  the test of the while loop; when it fails
\* _trim_history and add_message return
TrimTest ==
    /\ h_pc = "loop"
    /\ h_pc' = IF /\ estimated_tokens(messages) > max_tokens_estimate
                  /\ Len(messages) > 1
               THEN "body" ELSE "idle"
    /\ UNCHANGED <<callVars, runs, req, http, a_pc, runVars, ops,
                   tool_callback, streamVars, historyVars, session_history,
                   messages, added>>

\* gemini_wrapper.py:78-83  one pass of the body: the pop, and the estimate
\* computed again for the next test
TrimPass ==
    /\ h_pc = "body"
    /\ messages' = PopFirstOther(messages)
    /\ h_pc' = "loop"
    /\ UNCHANGED <<callVars, runs, req, http, a_pc, runVars, ops,
                   tool_callback, streamVars, historyVars, session_history,
                   added>>

TrimLoop == TrimTest \/ TrimPass

Roles == {"system", "user", "assistant"}
Contents == {Chars(0), Chars(4)}

NextChat ==
    \/ add_message(Roles, Contents)
    \/ TrimTest
    \/ TrimPass

\* the thread that called add_message keeps running: the next step of the
\* loop is taken
SpecChat == Init /\ [][NextChat]_vars /\ WF_vars(TrimLoop)

\* ------------------------------------- functions called on their own
\* the state in which the function named in c.fn is about to be called
\* with the arguments in c; nothing else is going on
InitCall(inputs) ==
    /\ runs = 0
    /\ req = NoReq
    /\ http = ""
    /\ a_pc = "idle"
    /\ decomp = NoResp
    /\ subs_raw = <<>>
    /\ ordered = <<>>
    /\ idx = 0
    /\ answered = <<>>
    /\ cur = NoCur
    /\ final_text = <<>>
    /\ result = None
    /\ ops = <<>>
    /\ tool_callback = "none"
    /\ event_queue = <<>>
    /\ g_pc = "idle"
    /\ delivered = <<>>
    /\ chunks = 0
    /\ conversation_history = <<>>
    /\ completed = <<>>
    /\ session_history = <<>>
    /\ clock = 0
    /\ call \in inputs
    /\ ret = None
    /\ messages = <<>>
    /\ h_pc = "idle"
    /\ added = 0

Returns(value) ==
    /\ ret = None
    /\ ret' = Some(value)
    /\ UNCHANGED <<runs, req, http, a_pc, runVars, ops, tool_callback,
                   streamVars, historyVars, session_history, call, chatVars>>

\* the texts of at most n pieces over the set ps
TextsOver(ps, n) == UNION {[1..k -> ps] : k \in 0..n}

\* the pieces of a question text: words, tokens that name a record, a token
\* whose key has no _FROM_Q<n>
ResolvePieces ==
    {W("price"), SP, PHX("DATE"), PH("PRICE", 1)}
    \cup {PH("TICKER", n) : n \in 1..RunNodes}

\* extracted_data and answer of a record
ResolveData ==
    {<<>>, <<Item("ticker", Fpt)>>, <<Item("ticker", <<>>)>>,
     <<Item("TICKER", Fpt)>>, <<Item("Ticker", Fpt)>>}

\* answered_by_id: for each id no record (None) or one record
ResolveAnswered ==
    {Flatten([i \in 1..RunNodes |->
                IF f[i] = None THEN <<>>
                ELSE <<Rec(i, f[i][1].answer, <<>>, f[i][1].ed)>>]) :
       f \in [1..RunNodes ->
                {None} \cup {Some([answer |-> a, ed |-> d]) :
                               a \in OracleTexts, d \in ResolveData}]}

ResolveCalls ==
    {[fn |-> "resolve_placeholders", text |-> t, answered |-> a] :
       t \in TextsOver(ResolvePieces, MaxPieces), a \in ResolveAnswered}

CallResolve ==
    /\ call.fn = "resolve_placeholders"
    /\ Returns(resolve_placeholders(call.text, call.answered))

SpecResolve == InitCall(ResolveCalls) /\ [][CallResolve]_vars

\* the words of a sub-question: "macro" matches two rules, "of" none
ToolPieces == {W("ticker"), W("price"), W("macro"), W("of"), SP}

\* what the similarity search may name: a tool no rule names, tools of
\* rules, a name the registry does not know
HitNames ==
    {"search_news", "get_stock_symbol", "get_stock_price", "no_such_tool"}

\* the lists of at most n distinct names
DistinctLists(names, n) ==
    {l \in UNION {[1..k -> names] : k \in 0..n} :
        \A i, j \in 1..Len(l) : l[i] = l[j] => i = j}

ToolCalls ==
    {[fn |-> "_search_tools", text |-> t, hits |-> h] :
       t \in TextsOver(ToolPieces, MaxPieces),
       h \in DistinctLists(HitNames, MaxHits)}

CallSearchTools ==
    /\ call.fn = "_search_tools"
    /\ Returns(search_tools(call.text, call.hits))

SpecTools == InitCall(ToolCalls) /\ [][CallSearchTools]_vars

\* the raw keys the oracle may give: synonyms, parameter names, a key in
\* another case, a key the table does not know
RawKeys ==
    {"ticker_symbol", "stock_symbol", "symbol", "ticker", "Ticker",
     "company", "country_name", "code"}

RawValues == {Fpt, <<W("VNM")>>}

\* the dicts of at most n items with distinct keys
DictsOver(keys, vals, n) ==
    {d \in UNION {[1..k -> {Item(a, b) : a \in keys, b \in vals}] :
                    k \in 0..n} :
        \A i, j \in 1..Len(d) : d[i].key = d[j].key => i = j}

Signatures ==
    {SigSectorMapping, SigStockPrice, SigStockSymbol, SigSearchNews,
     SigMacroData}

AliasCalls ==
    {[fn |-> "_map_aliases_to_signature", args |-> a, params |-> ps] :
       a \in DictsOver(RawKeys, RawValues, MaxArgs), ps \in Signatures}

CallMapAliases ==
    /\ call.fn = "_map_aliases_to_signature"
    /\ Returns(map_aliases_to_signature(call.args, call.params))

SpecAliases == InitCall(AliasCalls) /\ [][CallMapAliases]_vars

\* ------------------------------------------------ graphs, for the claims
UniqueIds(subs) ==
    \A i, j \in 1..Len(subs) : subs[i].id = subs[j].id => i = j

\* the pairs <<a, b>> with b in the depends_on of a
DepPairs(subs) == {<<e.id, e.dep>> : e \in Range(EdgesOf(subs))}

\* R with the pairs that k rounds of composition add
RECURSIVE Compose(_, _)
Compose(R, k) ==
    IF k = 0 THEN R
    ELSE Compose(R \cup {<<p[1][1], p[2][2]>> :
                            p \in {q \in R \X R : q[1][2] = q[2][1]}},
                 k - 1)

\* <<a, b>> is in Paths when a depends on b through one or more edges
Paths(subs) == Compose(DepPairs(subs), Len(subs))

Acyclic(subs) ==
    LET P == Paths(subs) IN \A a \in IdSet(subs) : <<a, a>> \notin P

ValidGraph(subs) == UniqueIds(subs) /\ ~InvalidDep(subs) /\ Acyclic(subs)

PosOf(list, nid) == CHOOSE i \in 1..Len(list) : list[i].id = nid

IsPermutation(out, in) ==
    /\ Len(out) = Len(in)
    /\ \A i \in 1..Len(in) :
        Cardinality({j \in 1..Len(out) : out[j] = in[i]}) = 1
    /\ \A j \in 1..Len(out) : \E i \in 1..Len(in) : in[i] = out[j]

DepsFirst(out) ==
    \A j \in 1..Len(out) : \A k \in 1..Len(out[j].depends_on) :
        \E i \in 1..(j - 1) : out[i].id = out[j].depends_on[k]

Sorted == a_pc \in {"node", "raised"}

\* C1: a list of nodes with unique ids, existing dependencies and no cycle
\* is returned by topo_sort_subquestions as a permutation of itself in which
\* every node stands after all the nodes of its depends_on.
C1_TopoPermutation ==
    (Sorted /\ ValidGraph(subs_raw)) =>
        /\ a_pc = "node"
        /\ IsPermutation(ordered, subs_raw)
        /\ DepsFirst(ordered)

\* a three-node list the sort had to reorder, one node with two dependencies
C1_Witness ==
    /\ a_pc = "node"
    /\ ValidGraph(subs_raw)
    /\ Len(ordered) = 3
    /\ ordered # subs_raw
    /\ \E i \in 1..3 : Len(ordered[i].depends_on) = 2

\* the relative order of the nodes a and b is the same in both lists
SameOrder(in, out, a, b) ==
    (PosOf(in, a) < PosOf(in, b)) <=> (PosOf(out, a) < PosOf(out, b))

\* C2 as stated: two nodes with no dependency path between them keep their
\* relative input order in the output.
C2_UnrelatedKeepOrder ==
    (a_pc = "node" /\ ValidGraph(subs_raw)) =>
        LET P == Paths(subs_raw)
        IN \A a, b \in IdSet(subs_raw) :
            (a # b /\ <<a, b>> \notin P /\ <<b, a>> \notin P)
                => SameOrder(subs_raw, ordered, a, b)

DepSet(subs, a) == Range(IdMap(subs, a).depends_on)

\* C2 amended: two nodes with the same set of dependencies (two nodes
\* without dependencies among them) keep their relative input order.
C2_SameDepsKeepOrder ==
    (a_pc = "node" /\ ValidGraph(subs_raw)) =>
        \A a, b \in IdSet(subs_raw) :
            (a # b /\ DepSet(subs_raw, a) = DepSet(subs_raw, b))
                => SameOrder(subs_raw, ordered, a, b)

\* two nodes share a dependency that comes after them in the input
C2_Witness ==
    /\ a_pc = "node"
    /\ ValidGraph(subs_raw)
    /\ \E a, b \in IdSet(subs_raw) :
        /\ a # b
        /\ DepSet(subs_raw, a) = DepSet(subs_raw, b)
        /\ DepSet(subs_raw, a) # {}
        /\ \A d \in DepSet(subs_raw, a) : PosOf(subs_raw, d) > PosOf(subs_raw, a)
        /\ \A d \in DepSet(subs_raw, a) : PosOf(subs_raw, d) > PosOf(subs_raw, b)

\* ------------------------------------------------------ runs, for the claims
\* a depends_on names an id of no node, or the dependencies form a cycle
GraphError(subs) == InvalidDep(subs) \/ ~Acyclic(subs)

ToolEventsOf(evs) ==
    {i \in 1..Len(evs) :
        evs[i].type \in {"tool_start", "tool_call", "tool_complete"}}

OpsOf(kinds) == {i \in 1..Len(ops) : ops[i].op \in kinds}

\* C3: when a depends_on names an id of no node or the graph has a cycle,
\* answer fails before any node is processed: no record, no oracle call for
\* a sub-question, no tool call, no tool event, no synthesis, no exchange
\* appended to the conversation history.
C3_GraphErrorAborts ==
    (ops # <<>> /\ a_pc # "sort" /\ GraphError(subs_raw)) =>
        /\ a_pc \in {"raised", "idle"}
        /\ answered = <<>>
        /\ ops = <<Op("decompose", 0, "", <<>>)>>
        /\ ToolEventsOf(event_queue) = {}
        /\ ToolEventsOf(delivered) = {}
        /\ final_text = <<>>
        /\ result = None

\* a streamed run whose two nodes depend on each other has raised
C3_Witness ==
    /\ req.kind = "stream"
    /\ a_pc = "raised"
    /\ Len(subs_raw) = 2
    /\ ~InvalidDep(subs_raw)
    /\ ~Acyclic(subs_raw)
    /\ ops = <<Op("decompose", 0, "", <<>>)>>

\* the node n was recorded as errored or as skipped
Failed(n) == \E i \in OpsOf({"errored", "skipped"}) : ops[i].id = n

\* the tokens {{<field>_FROM_Q<n>}} of the text of node m
Placeholders(m) == {p \in Range(IdMap(subs_raw, m).question) : p.k = "ph"}

RecordPos(n) == CHOOSE i \in 1..Len(answered) : answered[i].id = n

\* C5: a node whose text holds a placeholder on an earlier node that was
\* recorded as errored or skipped is recorded as skipped with that key
\* reported missing, without an oracle call or a tool call, and no value is
\* substituted from the failed node.
C5_FailedNodeStopsDownstream ==
    \A i \in 1..Len(answered) :
        LET m == answered[i].id
        IN \A p \in Placeholders(m) :
            (/\ HasAnswer(answered, p.sid)
             /\ RecordPos(p.sid) < i
             /\ Failed(p.sid)) =>
                /\ \E j \in OpsOf({"skipped"}) : ops[j].id = m
                /\ KeyOf(p) \in Range(answered[i].answer[1])
                /\ \A j \in OpsOf({"oracle", "tool_start", "tool"}) :
                        ops[j].id # m
                /\ \A j \in OpsOf({"subst"}) :
                        ops[j].id = m => p.sid \notin Range(ops[j].src)

\* the places of ops where a tool call raised: errored right after the call
Raised == {i \in OpsOf({"errored"}) : ops[i - 1].op = "tool"}

\* the text t holds the text m as a contiguous part
Contains(t, m) ==
    \E k \in 0..(Len(t) - Len(m)) : SubSeq(t, k + 1, k + Len(m)) = m

\* C6: when the tool of a node raises, the record of the node is an error
\* record (text with the message, used_tools the tool, extracted_data
\* empty), the run does not abort, and once it has returned every node of
\* the schedule has a record, synthesis was requested once and one exchange
\* was appended.
C6_ToolRaiseContained ==
    \A i \in Raised :
        /\ HasAnswer(answered, ops[i].id)
        /\ LET rec == AnswerOf(answered, ops[i].id)
           IN /\ IsErrorText(rec.answer)
              /\ Contains(rec.answer[1], ops[i].src)
              /\ rec.used_tools = <<ops[i].tool>>
              /\ rec.extracted_data = <<>>
        /\ a_pc # "raised"
        /\ result # None =>
            /\ \A k \in 1..Len(ordered) : HasAnswer(answered, ordered[k].id)
            /\ Cardinality(OpsOf({"synth"})) = 1
            /\ Cardinality(OpsOf({"append"})) = 1

Types(evs) == [i \in 1..Len(evs) |-> evs[i].type]

\* start, reasoning, tool events, content events, done
EventForm(ts) ==
    /\ Len(ts) >= 3
    /\ ts[1] = "start"
    /\ ts[2] = "reasoning"
    /\ ts[Len(ts)] = "done"
    /\ \A i \in 3..(Len(ts) - 1) :
        ts[i] \in {"tool_call", "tool_complete", "content"}
    /\ \A i, j \in 3..(Len(ts) - 1) :
        (i < j /\ ts[i] = "content") => ts[j] = "content"

\* C7: the events delivered by a stream whose worker returned a result are
\* one start, one reasoning, tool_call and tool_complete events, content
\* events, and one done at the end; at no time is a tool event delivered
\* after a content event or anything after done.
C7_EventForm ==
    /\ (g_pc = "finished" /\ result # None) => EventForm(Types(delivered))
    /\ \A i \in 3..Len(delivered) :
        delivered[i].type \in {"tool_call", "tool_complete", "content", "done"}
    /\ \A i, j \in 1..Len(delivered) :
        (i < j /\ delivered[i].type = "content")
            => delivered[j].type \in {"content", "done"}
    /\ \A i \in 1..Len(delivered) :
        delivered[i].type = "done" => i = Len(delivered)

\* a finished stream with a tool call, its completion and three chunks
C7_Witness ==
    /\ g_pc = "finished"
    /\ result # None
    /\ \E i \in 1..Len(delivered) : delivered[i].type = "tool_call"
    /\ \E i \in 1..Len(delivered) : delivered[i].type = "tool_complete"
    /\ Cardinality({i \in 1..Len(delivered) :
                        delivered[i].type = "content"}) = 3

\* C8: in the delivered events a tool_call is followed at once by the
\* tool_complete of the same tool, and a tool_complete follows at once the
\* tool_call of the same tool.
C8_ToolEventsPaired ==
    \A i \in 1..Len(delivered) :
        /\ (delivered[i].type = "tool_call" /\ i < Len(delivered)) =>
            /\ delivered[i + 1].type = "tool_complete"
            /\ delivered[i + 1].tool = delivered[i].tool
        /\ delivered[i].type = "tool_complete" =>
            /\ i > 1
            /\ delivered[i - 1].type = "tool_call"
            /\ delivered[i - 1].tool = delivered[i].tool

\* the answer to the decomposition request is no JSON, no object, or an
\* object with an entry that is no valid node
Unparsable(resp) ==
    \/ resp.kind \in {"none", "unparsable", "nonobject"}
    \/ /\ resp.kind = "object"
       /\ resp.has
       /\ \E i \in 1..Len(resp.subs) : ~SubQuestionOk(resp.subs[i])

Terminals == {i \in 1..Len(delivered) : delivered[i].type \in {"done", "error"}}

\* C4: a stream that has started delivers in the end one terminal event,
\* done or error, as its last event, whether the worker returns or raises.
C4_StreamTerminates ==
    (req.kind = "stream") ~>
        (/\ g_pc = "finished"
         /\ Cardinality(Terminals) = 1
         /\ Terminals = {Len(delivered)})

\* C9: between runs the conversation history holds at most 10 exchanges,
\* the most recent ones appended since the last clear, in the order of
\* their completion; right after an append it holds at most one more.
C9_HistoryKeepsLastTen ==
    LET h == conversation_history
        n == Len(completed)
        cap == IF a_pc = "trim" THEN HistoryCap + 1 ELSE HistoryCap
    IN /\ Len(h) = (IF n <= cap THEN n ELSE cap)
       /\ \A i \in 1..Len(h) : h[i] = completed[n - Len(h) + i]

\* an 11th run since the last clear has completed, after an earlier clear
C9_Witness ==
    /\ a_pc = "returned"
    /\ Len(completed) = HistoryCap + 1
    /\ Len(conversation_history) = HistoryCap
    /\ clock > Len(completed)
    /\ conversation_history[1] = completed[2]

\* ---------------------------------------------------------------- C11
\* the token p names a record whose extracted_data holds a non-empty value
\* under the lower-cased field name
InData(p, recs) ==
    /\ p.k = "ph"
    /\ HasAnswer(recs, p.sid)
    /\ Truthy(DictGet(AnswerOf(recs, p.sid).extracted_data, Lower(p.c)))

\* the token p names an id no record exists for
NoRecord(p, recs) == p.k = "ph" /\ ~HasAnswer(recs, p.sid)

ValueInData(p, recs) ==
    DictGet(AnswerOf(recs, p.sid).extracted_data, Lower(p.c))[1]

\* C11: resolve_placeholders replaces a token {{FIELD_FROM_Qn}} by the
\* non-empty value record n's extracted_data holds under the lower-cased
\* field name and does not list its key as missing; it leaves a token whose
\* id n has no record in place and appends its key to missing; a text
\* without tokens comes back unchanged with an empty missing list.  Stated
\* for the texts all of whose tokens are of these two sorts.
C11_PlaceholderResolution ==
    (/\ call.fn = "resolve_placeholders"
     /\ ret # None
     /\ \A i \in 1..Len(call.text) :
          IsToken(call.text[i]) =>
             \/ InData(call.text[i], call.answered)
             \/ NoRecord(call.text[i], call.answered))
    => LET t == call.text
           recs == call.answered
           r == ret[1]
       IN /\ ~r.exc
          /\ r.resolved =
               Flatten([i \in 1..Len(t) |->
                          IF IsToken(t[i]) /\ InData(t[i], recs)
                          THEN ValueInData(t[i], recs)
                          ELSE <<t[i]>>])
          /\ r.missing =
               Flatten([i \in 1..Len(t) |->
                          IF IsToken(t[i]) /\ NoRecord(t[i], recs)
                          THEN <<KeyOf(t[i])>>
                          ELSE <<>>])
          /\ (\A i \in 1..Len(t) : ~IsToken(t[i]))
                => r.resolved = t /\ r.missing = <<>>

\* a call has returned for a text with a token that finds its value in
\* extracted_data and a token whose record does not exist
C11_Witness ==
    /\ call.fn = "resolve_placeholders"
    /\ ret # None
    /\ \A i \in 1..Len(call.text) :
          IsToken(call.text[i]) =>
             \/ InData(call.text[i], call.answered)
             \/ NoRecord(call.text[i], call.answered)
    /\ \E i \in 1..Len(call.text) :
          IsToken(call.text[i]) /\ InData(call.text[i], call.answered)
    /\ \E i \in 1..Len(call.text) :
          IsToken(call.text[i]) /\ NoRecord(call.text[i], call.answered)
    /\ ret[1].missing # <<>>
    /\ ret[1].resolved # call.text

\* ---------------------------------------------------------------- C12
\* the node the loop of answer is about to take up, and what
\* resolve_placeholders makes of its text against the records so far
AtNode == a_pc = "node" /\ idx < Len(ordered)
NextNode == ordered[idx + 1]
NextResolved == resolve_placeholders(NextNode.question, answered)

\* the keys a text names
KeysIn(text) == SelectSeq(text, LAMBDA p : p.k = "key")

\* C12: a node whose text has at least one missing key is recorded as
\* skipped: its record's text starts with SKIP and names exactly the missing
\* keys, used_tools and extracted_data are empty; no oracle call, tool call
\* or tool event happens for it (the only addition to the log of the run
\* is the substitution read and the skip), and the loop goes on to the
\* next node.
C12_MissingKeysSkip ==
    [][(/\ AtNode
        /\ ~NextResolved.exc
        /\ NextResolved.missing # <<>>
        /\ <<a_pc, idx, answered, ops>>' # <<a_pc, idx, answered, ops>>)
       => LET id == NextNode.id
              missing == NextResolved.missing
          IN /\ HasAnswer(answered', id)
             /\ LET rec == AnswerOf(answered', id)
                IN /\ IsSkipText(rec.answer)
                   /\ KeysIn(rec.answer[1]) = missing
                   /\ rec.used_tools = <<>>
                   /\ rec.extracted_data = <<>>
             /\ \A i \in 1..Len(answered) :
                   answered[i].id # id =>
                      /\ HasAnswer(answered', answered[i].id)
                      /\ AnswerOf(answered', answered[i].id) = answered[i]
             /\ Len(ops') > Len(ops)
             /\ SubSeq(ops', 1, Len(ops)) = ops
             /\ \A i \in (Len(ops) + 1)..Len(ops') :
                   ops'[i].op \in {"subst", "skipped"}
             /\ event_queue' = event_queue
             /\ cur' = cur
             /\ a_pc' = "node"
             /\ idx' = idx + 1]_vars

\* a node has been skipped for a missing key and the node after it has
\* been taken up and answered by the oracle
C12_Witness ==
    \E i, j \in 1..Len(ops) :
        /\ i < j
        /\ ops[i].op = "skipped"
        /\ ops[j].op = "oracle"
        /\ ops[j].id # ops[i].id
        /\ HasAnswer(answered, ops[i].id)
        /\ IsSkipText(AnswerOf(answered, ops[i].id).answer)
        /\ KeysIn(AnswerOf(answered, ops[i].id).answer[1]) # <<>>

\* ---------------------------------------------------------------- C13
\* the depends_on list of the node id of the schedule
DependsOn(id) ==
    ordered[CHOOSE i \in 1..Len(ordered) : ordered[i].id = id].depends_on

InLoop == a_pc \in {"node", "tool"}
PastLoop == a_pc \in {"append", "trim", "returned"}

\* the records are those of the first n nodes of the schedule, in its order
RecordsOfFirst(recs, n) ==
    /\ Len(recs) = n
    /\ n <= Len(ordered)
    /\ \A i \in 1..n : recs[i].id = ordered[i].id

\* C14: in a run that passes scheduling each node gets exactly one record,
\* written once and never replaced: the ids of the schedule are distinct,
\* the records are at any time those of the nodes left behind, in schedule
\* order, a step only adds a record behind the others; at synthesis and in
\* the returned answered_subquestions there is one record per node, in
\* schedule order.
C14_OneRecordPerNode ==
    /\ []((InLoop \/ PastLoop) =>
            /\ UniqueIds(subs_raw)
            /\ UniqueIds(ordered)
            /\ Len(ordered) = Len(subs_raw))
    /\ [](InLoop => RecordsOfFirst(answered, idx))
    /\ [](PastLoop => RecordsOfFirst(answered, Len(ordered)))
    /\ [](a_pc = "returned" =>
            /\ result # None
            /\ RecordsOfFirst(result[1].answered_subquestions, Len(ordered)))
    /\ [][\/ answered' = <<>>
          \/ /\ Len(answered') \in {Len(answered), Len(answered) + 1}
             /\ SubSeq(answered', 1, Len(answered)) = answered]_vars

\* a run has returned the records of two nodes the schedule put in another
\* order than the decomposition listed them
C14_Witness ==
    /\ a_pc = "returned"
    /\ Len(ordered) = 2
    /\ ordered # subs_raw
    /\ result # None
    /\ Len(result[1].answered_subquestions) = 2
    /\ result[1].answered_subquestions[1].id = ordered[1].id
    /\ result[1].answered_subquestions[1].id # subs_raw[1].id

\* ---------------------------------------------------------------- C15
DoneEvents == {i \in 1..Len(delivered) : delivered[i].type = "done"}

\* C15: a run that returns a result has a non-empty final report, whatever
\* the oracle returned at synthesis (no text and the empty text included);
\* so the final_report of every done event is non-empty.
C15_ReportNeverEmpty ==
    /\ PastLoop => final_text # <<>>
    /\ result # None => result[1].report # <<>>
    /\ \A i \in DoneEvents : delivered[i].final_report # <<>>
    /\ \A i \in 1..Len(session_history) : session_history[i].report # <<>>

\* a stream has ended with a done event whose report is the fallback text:
\* the oracle gave no text at synthesis
C15_Witness ==
    /\ g_pc = "finished"
    /\ result # None
    /\ result[1].report = <<W("No"), SP, W("final"), SP, W("text")>>
    /\ \E i \in DoneEvents : delivered[i].final_report = result[1].report

\* ---------------------------------------------------------------- C16
\* the place of the rule that names the tool (0: no rule does)
RuleOf(tool) ==
    IF \E i \in 1..Len(Rules) : Rules[i].tool = tool
    THEN CHOOSE i \in 1..Len(Rules) : Rules[i].tool = tool
    ELSE 0

\* the tool is named by a rule one of whose keywords the text holds
KeywordMatched(tool, text) ==
    RuleOf(tool) # 0 /\ RuleMatches(Rules[RuleOf(tool)], text)

\* C16: for every text and every list of distinct hits the list
\* _search_tools returns holds no tool twice, has every tool matched by a
\* keyword rule before every tool that came from the similarity search
\* only, has a tool matched by a later rule before a tool matched by an
\* earlier rule, and keeps the tools of the similarity search only in their
\* rank order.
C16_MergeOrder ==
    (call.fn = "_search_tools" /\ ret # None) =>
        LET out == ret[1]
            text == call.text
            semonly(t) == ~KeywordMatched(t, text)
        IN /\ \A i, j \in 1..Len(out) : out[i] = out[j] => i = j
           /\ \A i, j \in 1..Len(out) :
                (KeywordMatched(out[i], text) /\ semonly(out[j])) => i < j
           /\ \A i, j \in 1..Len(out) :
                (/\ KeywordMatched(out[i], text)
                 /\ KeywordMatched(out[j], text)
                 /\ RuleOf(out[i]) > RuleOf(out[j])) => i < j
           /\ SelectSeq(out, semonly)
                = SelectSeq(Registered(call.hits), semonly)

\* ---------------------------------------------------------------- C17
\* the call has returned for raw arguments of one item
OneRawKey ==
    /\ call.fn = "_map_aliases_to_signature"
    /\ ret # None
    /\ Len(call.args) = 1

\* {"ticker_symbol": v} for a tool that declares ticker gives {"ticker": v}
TickerSymbolBound ==
    (/\ OneRawKey
     /\ call.args[1].key = "ticker_symbol"
     /\ InSeq("ticker", call.params))
    => /\ ~ret[1].exc
       /\ ret[1].mapped = <<Item("ticker", call.args[1].val)>>

\* the only raw key stands in the alias table and its target is declared
AliasOfDeclared ==
    /\ OneRawKey
    /\ \E i \in 1..Len(AliasMap) :
          /\ AliasMap[i].key = call.args[1].key
          /\ InSeq(AliasMap[i].val, call.params)

TargetOf(k) == AliasMap[CHOOSE i \in 1..Len(AliasMap) : AliasMap[i].key = k].val

BoundToTarget ==
    /\ ~ret[1].exc
    /\ ret[1].mapped =
          <<Item(TargetOf(call.args[1].key), call.args[1].val)>>

\* C17 as stated: {"ticker_symbol": v} for a tool that declares ticker is
\* normalized to {"ticker": v}, and any raw key of the alias table whose
\* target is a declared parameter, being the only raw key, is bound to that
\* target with its value unchanged.
C17_AliasBoundAny ==
    /\ TickerSymbolBound
    /\ AliasOfDeclared => BoundToTarget

\* C17, amended: the same for a raw key that is not itself a declared
\* parameter of the tool other than its target; a raw key that is a
\* declared parameter is passed through under its own name.
C17_AliasBound ==
    /\ TickerSymbolBound
    /\ (/\ AliasOfDeclared
        /\ \/ ~InSeq(call.args[1].key, call.params)
           \/ call.args[1].key = TargetOf(call.args[1].key))
       => BoundToTarget
    /\ (OneRawKey /\ InSeq(call.args[1].key, call.params))
       => /\ ~ret[1].exc
          /\ ret[1].mapped = call.args

\* {"ticker_symbol": v} has been normalized for get_stock_price, which
\* declares ticker among three parameters
C17_Witness ==
    /\ OneRawKey
    /\ call.params = <<"ticker", "stock_symbol", "stock_ticker">>
    /\ call.args[1].key = "ticker_symbol"
    /\ AliasOfDeclared
    /\ ret[1].mapped = <<Item("ticker", call.args[1].val)>>

\* ---------------------------------------------------------------- C18
\* C18: chat and chat_stream both reject an empty or whitespace-only
\* message before any run starts: no request with such a message is ever
\* being served, none has an agent run, none reaches the session history.
C18_BlankMessageRejected ==
    /\ req.kind # "none" => ~Blank(req.message)
    /\ \A i \in 1..Len(session_history) :
          ~Blank(session_history[i].user_message)

\* ---------------------------------------------------------------- C19
EventTypes ==
    {"start", "reasoning", "tool_call", "tool_complete", "content", "done",
     "error"}

\* C19: every object chat_stream emits, for an unknown session as well,
\* carries a type field whose value is one of start, reasoning, tool_call,
\* tool_complete, content, done, error.
C19_EveryEventTyped ==
    \A i \in 1..Len(delivered) : delivered[i].type \in EventTypes

\* ---------------------------------------------------------------- C20
\* the tool names of the tool_call events among evs, in order
ToolCallNames(evs) ==
    LET calls == SelectSeq(evs, LAMBDA e : e.type = "tool_call")
    IN [i \in 1..Len(calls) |-> calls[i].tool]

\* the used_tools lists of the records, one after the other
UsedTools(recs) == Flatten([k \in 1..Len(recs) |-> recs[k].used_tools])

\* C20: in a stream that ends with done, the tool names of the delivered
\* tool_call events are, in order, the used_tools lists of the records in
\* done's answered_subquestions put one after the other.
\* Until then the names delivered, followed by those still queued, are the
\* names of the tool calls the run has begun, and the tools of the records
\* are those of the calls that have ended.
C20_ToolCallsMatchUsedTools ==
    /\ \A i \in DoneEvents :
          ToolCallNames(SubSeq(delivered, 1, i))
              = UsedTools(delivered[i].answered_subquestions)
    /\ req.kind = "stream" =>
          LET queued == SelectSeq(event_queue,
                                  LAMBDA e : e.type = "tool_start")
              begun == SelectSeq(ops, LAMBDA o : o.op = "tool_start")
              ended == SelectSeq(ops, LAMBDA o : o.op = "tool")
          IN /\ ToolCallNames(delivered)
                   \o [k \in 1..Len(queued) |-> queued[k].tool_name]
                 = [k \in 1..Len(begun) |-> begun[k].tool]
             /\ UsedTools(answered)
                 = [k \in 1..Len(ended) |-> ended[k].tool]

\* a stream has ended with done after two tool calls of different tools,
\* the first of which raised
C20_Witness ==
    /\ g_pc = "finished"
    /\ \E i \in DoneEvents :
        /\ Len(UsedTools(delivered[i].answered_subquestions)) = 2
        /\ ToolCallNames(delivered) =
              UsedTools(delivered[i].answered_subquestions)
        /\ ToolCallNames(delivered)[1] # ToolCallNames(delivered)[2]
        /\ IsErrorText(delivered[i].answered_subquestions[1].answer)

\* ---------------------------------------------------------------- C21
\* the call of _map_aliases_to_signature has come to its end
AliasesCalled == call.fn = "_map_aliases_to_signature" /\ ret # None

\* C21: whenever the raw arguments hold a key exactly equal to a declared
\* parameter name, _map_aliases_to_signature binds that parameter to that
\* key's value, whatever other keys (aliases of the same parameter among
\* them) the raw arguments hold.
C21_ExactKeyWins ==
    AliasesCalled =>
        \A i \in 1..Len(call.args) :
            InSeq(call.args[i].key, call.params) =>
                /\ ~ret[1].exc
                /\ DictGet(ret[1].mapped, call.args[i].key)
                     = Some(call.args[i].val)

\* ---------------------------------------------------------------- C22
\* C22: for every raw argument map, the empty one included, and every tool
\* _map_aliases_to_signature returns without raising a map all of whose
\* keys are declared parameters of the tool; the empty map is normalized to
\* the empty map.
C22_NormalizeNeverRaises ==
    AliasesCalled =>
        /\ ~ret[1].exc
        /\ \A i \in 1..Len(ret[1].mapped) :
              InSeq(ret[1].mapped[i].key, call.params)
        /\ call.args = <<>> => ret[1].mapped = <<>>

\* ---------------------------------------------------------------- C23
\* the items of extracted_data whose key is the field but for letter case
SameField(ed, field) == SelectSeq(ed, LAMBDA it : Lower(it.key) = Lower(field))

\* the text holds one token, at place i, and it names a record
OnlyTokenAt(text, recs, i) ==
    /\ i \in 1..Len(text)
    /\ text[i].k = "ph"
    /\ HasAnswer(recs, text[i].sid)
    /\ \A j \in 1..Len(text) : IsToken(text[j]) => j = i

\* C23: when the record a token names has an extracted_data key equal to
\* the field ignoring letter case, whatever the case of the stored key,
\* resolve_placeholders puts that key's value in the token's place; the
\* answer text is consulted only when there is no such key.  Stated for
\* texts with one token and a stored value that is not empty.
C23_KeyCaseIgnored ==
    (call.fn = "resolve_placeholders" /\ ret # None) =>
        \A i \in 1..Len(call.text) :
            LET t == call.text
                ed == AnswerOf(call.answered, t[i].sid).extracted_data
            IN (/\ OnlyTokenAt(t, call.answered, i)
                /\ SameField(ed, t[i].c) # <<>>
                /\ SameField(ed, t[i].c)[1].val # <<>>)
               => /\ ~ret[1].exc
                  /\ ret[1].missing = <<>>
                  /\ ret[1].resolved =
                        SubSeq(t, 1, i - 1) \o SameField(ed, t[i].c)[1].val
                        \o SubSeq(t, i + 1, Len(t))

\* ---------------------------------------------------------------- C24
\* C24: resolve_placeholders never raises: for every text and every table
\* of records (records without an answer text, with an empty one, with one
\* that has nothing after its last colon) it returns a text and a missing
\* list, and the tokens left in the text are the ones reported missing.
C24_ResolveNeverRaises ==
    (call.fn = "resolve_placeholders" /\ ret # None) =>
        /\ ~ret[1].exc
        /\ LET left == SelectSeq(ret[1].resolved, IsToken)
           IN ret[1].missing = [i \in 1..Len(left) |-> KeyOf(left[i])]

\* ---------------------------------------------------------------- C25
\* the tool events of the log of the run, as the client is to see them
ProducedEvents ==
    LET evs == SelectSeq(ops, LAMBDA o : o.op \in {"tool_start", "tool_complete"})
    IN [i \in 1..Len(evs) |->
          [type |-> IF evs[i].op = "tool_start" THEN "tool_call"
                    ELSE "tool_complete",
           tool |-> evs[i].tool]]

\* the tool events among the delivered ones
SeenEvents(evs) ==
    LET tes == SelectSeq(evs, LAMBDA e :
                   e.type \in {"tool_call", "tool_complete"})
    IN [i \in 1..Len(tes) |-> [type |-> tes[i].type, tool |-> tes[i].tool]]

\* the tool events among the queued ones, under the names they are
\* delivered with
QueuedEvents(q) ==
    LET tes == SelectSeq(q, LAMBDA e :
                   e.type \in {"tool_start", "tool_complete"})
    IN [i \in 1..Len(tes) |->
          [type |-> IF tes[i].type = "tool_start" THEN "tool_call"
                    ELSE "tool_complete",
           tool |-> tes[i].tool_name]]

SentinelsIn(q) == {i \in 1..Len(q) : q[i].type = "sentinel"}

C26_ReadsSeeAtMostTen ==
    (call.fn = "get_conversation_history" /\ ret # None)
        => /\ ret[1].total_exchanges <= HistoryCap
           /\ Len(ret[1].conversation_history) <= HistoryCap

\* ---------------------------------------------------------------- C27
\* C27: whatever the oracle answers to the decomposition request, the list
\* of nodes handed to the scheduler is not empty, and the result of a run
\* that returns holds at least one record.
C27_NodeListNeverEmpty ==
    /\ (req.kind # "none" /\ decomp # NoResp) => subs_raw # <<>>
    /\ (req.kind # "none" /\ result # None)
           => result[1].answered_subquestions # <<>>

\* ---------------------------------------------------------------- C28
\* C28: when the tool_complete event of a node's tool call is emitted, the
\* record of that node is not an error record: its text is no ERROR text,
\* its used_tools is the tool and its extracted_data is the tool's result
\* (never empty here: every tool of the model returns a non-empty map or a
\* value that is wrapped).
C28_CompleteMeansAnswered ==
    [][(/\ a_pc = "tool"
        /\ event_queue' =
             Append(event_queue, QEvent("tool_complete", cur.tool)))
       => /\ HasAnswer(answered', cur.id)
          /\ LET rec == AnswerOf(answered', cur.id)
             IN /\ ~IsErrorText(rec.answer)
                /\ rec.used_tools = <<cur.tool>>
                /\ rec.extracted_data # <<>>]_vars

\* ---------------------------------------------------------------- C29
\* C29: whenever add_message has returned, whatever the roles of the
\* messages, the history holds at most max_messages messages.
C29_AtMostMaxMessages ==
    (h_pc = "idle") => Len(messages) <= max_messages

\* ---------------------------------------------------------------- C30
\* C30: every add_message call returns: the token loop of _trim_history
\* ends, whatever the history holds.
C30_AddMessageTerminates ==
    (h_pc # "idle") ~> (h_pc = "idle")

====
